---- MODULE Spec2Model ----
(***************************************************************************)
(* Ward & Hale (1956), "Digital Computer Solution of Power-Flow Problems": *)
(* the Gauss-Seidel node-by-node power-flow iteration of the notebook      *)
(* notebooks/Ward (1956) - Digital Computer Solution of Power-Flow         *)
(* Problems.ipynb.                                                         *)
(*                                                                         *)
(* Real numbers (Python floats in the notebook) are held as integers in    *)
(* units of 1/Scale (six decimal digits); products and quotients are       *)
(* truncated toward zero.  None is the empty tuple <<>> and a present      *)
(* value v is the one-element tuple <<v>>.                                 *)
(***************************************************************************)
EXTENDS Integers, Sequences, FiniteSets, TLC

VARIABLES
    n,          \* number of buses (cell 3.3, `n`)
    G, B,       \* conductance and susceptance matrices, G[k][m]
    Y,          \* the module-level admittance matrix: only its shape is read
    Es_magn, Es_ang, Ps, Qs,   \* specified terminal conditions, None = <<>>
    n_iters,    \* number of sweeps to perform
    E_real, E_imag,            \* the voltage state
    i, k,       \* loop variables of the iteration loop
    pc,         \* position of the notebook's execution
    err,        \* the exception that ended the run, <<>> if none
    sol,        \* the final solution of cell 3.5, <<>> before it is computed
    call,       \* arguments and result of a direct call of compute_I
    hist        \* history: what the run has done so far (not read by the program)

vars == <<n, G, B, Y, Es_magn, Es_ang, Ps, Qs, n_iters, E_real, E_imag,
          i, k, pc, err, sol, call, hist>>

inputs == <<n, G, B, Y, Es_magn, Es_ang, Ps, Qs, n_iters>>

----------------------------------------------------------------------------
(* Arithmetic on numbers held in units of 1/Scale.  A number whose          *)
(* magnitude exceeds Lim is not represented: an operation that would yield  *)
(* one yields OOR, and OOR is absorbing.                                    *)

Half == 10^3
Scale == Half * Half
Lim == 1000 * Scale
OOR == Lim + 1
DivMax == 400 * Scale

None == <<>>
Just(v) == <<v>>
Val(o) == o[1]

Abs(x) == IF x < 0 THEN -x ELSE x
Sgn(x) == IF x < 0 THEN -1 ELSE 1
Clip(x) == IF Abs(x) > Lim THEN OOR ELSE x

Neg(a) == IF a = OOR THEN OOR ELSE -a
Add(a, b) == IF a = OOR \/ b = OOR THEN OOR ELSE Clip(a + b)
Sub(a, b) == IF a = OOR \/ b = OOR THEN OOR ELSE Clip(a - b)

\* floor(a * b / Scale) for 0 <= a, b <= Lim, without forming a * b
MulNat(a, b) ==
    LET ah == a \div Half
        al == a % Half
        bh == b \div Half
        bl == b % Half
        mid == ah * bl + al * bh
    IN  IF bh > 0 /\ ah > Lim \div bh THEN OOR
        ELSE Clip(ah * bh + (mid \div Half)
                  + (((mid % Half) * Half + al * bl) \div Scale))

\* the product a * b, truncated toward zero
Mul(a, b) ==
    IF a = OOR \/ b = OOR THEN OOR
    ELSE LET m == MulNat(Abs(a), Abs(b))
         IN  IF m = OOR THEN OOR ELSE Sgn(a) * Sgn(b) * m

\* the factors of Scale, one long-division step each
DivFactors == <<5, 5, 5, 5, 5, 5, 2, 2, 2, 2, 2, 2>>

RECURSIVE DivSteps(_, _, _, _)
DivSteps(q, r, d, j) ==
    IF j > Len(DivFactors) THEN q
    ELSE DivSteps(q * DivFactors[j] + ((r * DivFactors[j]) \div d),
                  (r * DivFactors[j]) % d, d, j + 1)

\* floor(a * Scale / d) for 0 <= a <= Lim, 0 < d <= DivMax
DivSmall(a, d) ==
    IF a \div d >= Lim \div Scale THEN OOR
    ELSE DivSteps(a \div d, a % d, d, 1)

\* a * Scale / d for 0 <= a <= Lim, 0 < d <= Lim
DivNat(a, d) == IF d > DivMax THEN DivSmall(a \div 4, d \div 4) ELSE DivSmall(a, d)

\* the quotient a / d, truncated toward zero; d # 0
Div(a, d) ==
    IF a = OOR \/ d = OOR THEN OOR
    ELSE LET q == DivNat(Abs(a), Abs(d))
         IN  IF q = OOR THEN OOR ELSE Sgn(a) * Sgn(d) * q

\* a / j for an integer j > 0 (a, j not scaled against each other)
DivInt(a, j) == IF a = OOR THEN OOR ELSE Sgn(a) * (Abs(a) \div j)

\* the terms x^j / j! of the exponential series, j = 1 .. 12
ExpTerms == 12

RECURSIVE ExpSum(_, _, _, _)
ExpSum(x, term, sum, j) ==
    IF j > ExpTerms THEN sum
    ELSE LET t == DivInt(Mul(term, x), j)
         IN  ExpSum(x, t, Add(sum, t), j + 1)

\* np.exp(x) for a real x
Exp(x) == ExpSum(x, Scale, Scale, 1)

----------------------------------------------------------------------------
(* 3.2 Core functions.                                                      *)

Shape0(M) == Cardinality(DOMAIN M)

RECURSIVE compute_I_loop(_, _, _, _, _, _, _, _)
compute_I_loop(G_, B_, Er, Ei, k_, m, stop, acc) ==
    IF m >= stop THEN acc
    ELSE IF ~(k_ \in DOMAIN G_ /\ m \in DOMAIN G_[k_] /\ m \in DOMAIN Er
              /\ k_ \in DOMAIN B_ /\ m \in DOMAIN B_[k_] /\ m \in DOMAIN Ei)
    THEN [exc |-> "IndexError", i_real |-> 0, i_imag |-> 0]
    ELSE compute_I_loop(G_, B_, Er, Ei, k_, m + 1, stop,
            [exc |-> "",
             i_real |-> Add(acc.i_real,
                            Sub(Mul(G_[k_][m], Er[m]), Mul(B_[k_][m], Ei[m]))),
             i_imag |-> Add(acc.i_imag,
                            Add(Mul(G_[k_][m], Ei[m]), Mul(B_[k_][m], Er[m])))])

\* compute_I(G, B, E_real, E_imag, k) under the module-level matrix Y_: the loop
\* runs over range(Y.shape[0])
compute_I_under(Y_, G_, B_, Er, Ei, k_) ==
    compute_I_loop(G_, B_, Er, Ei, k_, 0, Shape0(Y_),
                   [exc |-> "", i_real |-> 0, i_imag |-> 0])

compute_I(G_, B_, Er, Ei, k_) == compute_I_under(Y, G_, B_, Er, Ei, k_)

compute_PQ(i_real, i_imag, e_real, e_imag) ==
    [p |-> Add(Mul(i_real, e_real), Mul(i_imag, e_imag)),
     q |-> Sub(Mul(i_real, e_imag), Mul(i_imag, e_real))]

\* np.linalg.inv of the 2 x 2 matrix <<<<a00, a01>>, <<a10, a11>>>>
Det2(A) == Sub(Mul(A[1][1], A[2][2]), Mul(A[1][2], A[2][1]))

linalg_inv(A) ==
    LET det == Det2(A)
    IN  IF det = 0 THEN [exc |-> "LinAlgError", msg |-> "Singular matrix", inv |-> <<>>]
        ELSE [exc |-> "", msg |-> "",
              inv |-> << <<Div(A[2][2], det), Div(Neg(A[1][2]), det)>>,
                         <<Div(Neg(A[2][1]), det), Div(A[1][1], det)>> >>]

\* np.dot(np.linalg.inv(A), b) for the column b = <<b0, b1>>
solve_by_inverse(A, b) ==
    LET r == linalg_inv(A)
    IN  IF r.exc # "" THEN [exc |-> r.exc, msg |-> r.msg, x0 |-> 0, x1 |-> 0]
        ELSE [exc |-> "", msg |-> "",
              x0 |-> Add(Mul(r.inv[1][1], b[1]), Mul(r.inv[1][2], b[2])),
              x1 |-> Add(Mul(r.inv[2][1], b[1]), Mul(r.inv[2][2], b[2]))]

load_matrix(i_real, i_imag, e_real, e_imag, B_, G_, k_) ==
    << <<Add(Add(Mul(e_real, G_[k_][k_]), Mul(e_imag, B_[k_][k_])), i_real),
         Add(Add(Neg(Mul(e_real, B_[k_][k_])), Mul(e_imag, G_[k_][k_])), i_imag)>>,
       <<Sub(Add(Neg(Mul(e_real, B_[k_][k_])), Mul(e_imag, G_[k_][k_])), i_imag),
         Add(Add(Neg(Mul(e_real, G_[k_][k_])), Mul(e_imag, B_[k_][k_])), i_real)>> >>

\* compute_E_correction_load with the sign of the computed Q wrong in dq
compute_E_correction_load_dq_sign(p_specified, q_specified, i_real, i_imag, e_real, e_imag, B_, G_, k_) ==
    LET pq == compute_PQ(i_real, i_imag, e_real, e_imag)
        dp == Sub(p_specified, pq.p)
        dq == Add(q_specified, pq.q)
    IN  solve_by_inverse(load_matrix(i_real, i_imag, e_real, e_imag, B_, G_, k_),
                         <<dp, dq>>)

compute_E_correction_load(p_specified, q_specified, i_real, i_imag, e_real, e_imag, B_, G_, k_) ==
    LET pq == compute_PQ(i_real, i_imag, e_real, e_imag)
        dp == Sub(p_specified, pq.p)
        dq == Sub(q_specified, pq.q)
    IN  solve_by_inverse(load_matrix(i_real, i_imag, e_real, e_imag, B_, G_, k_),
                         <<dp, dq>>)

generator_matrix(i_real, i_imag, e_real, e_imag, B_, G_, k_) ==
    << <<Add(Add(Mul(e_real, G_[k_][k_]), Mul(e_imag, B_[k_][k_])), i_real),
         Add(Add(Neg(Mul(e_real, B_[k_][k_])), Mul(e_imag, G_[k_][k_])), i_imag)>>,
       <<Mul(2 * Scale, e_real), Mul(2 * Scale, e_imag)>> >>

\* compute_E_correction_generator with the deviation of |E| taken from the
\* magnitude, not from its square
compute_E_correction_generator_unsquared(p_specified, e_magn_specified, i_real, i_imag, e_real, e_imag, B_, G_, k_) ==
    LET pq == compute_PQ(i_real, i_imag, e_real, e_imag)
        dp == Sub(p_specified, pq.p)
        e_magn_square == Add(Mul(e_real, e_real), Mul(e_imag, e_imag))
        de_square == Sub(e_magn_specified, e_magn_square)
    IN  solve_by_inverse(generator_matrix(i_real, i_imag, e_real, e_imag, B_, G_, k_),
                         <<dp, de_square>>)

\* compute_E_correction_generator with the computed P added to the specified P
compute_E_correction_generator_dp_sign(p_specified, e_magn_specified, i_real, i_imag, e_real, e_imag, B_, G_, k_) ==
    LET pq == compute_PQ(i_real, i_imag, e_real, e_imag)
        dp == Add(p_specified, pq.p)
        e_magn_square == Add(Mul(e_real, e_real), Mul(e_imag, e_imag))
        de_square == Sub(Mul(e_magn_specified, e_magn_specified), e_magn_square)
    IN  solve_by_inverse(generator_matrix(i_real, i_imag, e_real, e_imag, B_, G_, k_),
                         <<dp, de_square>>)

compute_E_correction_generator(p_specified, e_magn_specified, i_real, i_imag, e_real, e_imag, B_, G_, k_) ==
    LET pq == compute_PQ(i_real, i_imag, e_real, e_imag)
        dp == Sub(p_specified, pq.p)
        e_magn_square == Add(Mul(e_real, e_real), Mul(e_imag, e_imag))
        de_square == Sub(Mul(e_magn_specified, e_magn_specified), e_magn_square)
    IN  solve_by_inverse(generator_matrix(i_real, i_imag, e_real, e_imag, B_, G_, k_),
                         <<dp, de_square>>)

\* np.abs of the complex number a + jb: the largest m with m * m <= a^2 + b^2
RECURSIVE SqrtSearch(_, _, _)
SqrtSearch(v, lo, hi) ==
    IF hi - lo <= 1 THEN lo
    ELSE LET mid == (lo + hi) \div 2
         IN  IF Mul(mid, mid) <= v THEN SqrtSearch(v, mid, hi)
             ELSE SqrtSearch(v, lo, mid)

np_abs(a, b) ==
    LET v == Add(Mul(a, a), Mul(b, b))
    IN  IF v = OOR THEN OOR ELSE SqrtSearch(v, 0, 32 * Scale)

\* atan(2^-j), j = 0 .. 20, in units of 1/Scale
AtanTable == <<785398, 463648, 244979, 124355, 62419, 31240, 15624, 7812, 3906,
               1953, 977, 488, 244, 122, 61, 31, 15, 8, 4, 2, 1>>
Pi == 4 * AtanTable[1]

Pow2(j) == 2^j

\* rotate (x, y), x > 0, onto the positive real axis, adding up the angle
RECURSIVE Cordic(_, _, _, _)
Cordic(x, y, z, j) ==
    IF j > Len(AtanTable) \/ y = 0 THEN z
    ELSE IF y > 0
    THEN Cordic(x + DivInt(y, Pow2(j - 1)), y - DivInt(x, Pow2(j - 1)),
                z + AtanTable[j], j + 1)
    ELSE Cordic(x - DivInt(y, Pow2(j - 1)), y + DivInt(x, Pow2(j - 1)),
                z - AtanTable[j], j + 1)

\* np.angle of the complex number a + jb (radians)
np_angle(a, b) ==
    IF a = OOR \/ b = OOR THEN OOR
    ELSE IF a > 0 THEN Cordic(a, b, 0, 1)
    ELSE IF a < 0 THEN (IF b >= 0 THEN Pi + Cordic(-a, -b, 0, 1)
                                  ELSE Cordic(-a, -b, 0, 1) - Pi)
    ELSE IF b > 0 THEN Pi \div 2
    ELSE IF b < 0 THEN -(Pi \div 2)
    ELSE 0

----------------------------------------------------------------------------
(* 3.3 Network example: the inputs of a run.                                *)

MaxSweeps == 2
MaxBus == 3

Buses(nn) == 0 .. (nn - 1)

\* the bus counts of the networks tried
BusCounts == 2 .. MaxBus

\* a network of nn buses, every pair joined by a line of admittance g - jb
LineG == {Scale}
LineB == {0, 4 * Scale}

NetG(nn, g) == [a \in Buses(nn) |-> [m \in Buses(nn) |->
                    IF a = m THEN (nn - 1) * g ELSE -g]]
NetB(nn, b) == [a \in Buses(nn) |-> [m \in Buses(nn) |->
                    IF a = m THEN -((nn - 1) * b) ELSE b]]

\* Y = G + 1j * B
Admittance(G_, B_) == [a \in DOMAIN G_ |-> [m \in DOMAIN G_[a] |->
                          <<G_[a][m], B_[a][m]>>]]

\* what is specified at one bus: magnitude V, angle A, P and Q, each or None
Pattern(v, a, p_, q_) == [V |-> v, A |-> a, P |-> p_, Q |-> q_]

\* bus 0: 1.0 at angle 0, 1.05 at angle 0.1 rad, or no magnitude and angle at all
SlackPatterns ==
    { Pattern(Just(Scale), Just(0), None, None),
      Pattern(Just((105 * Scale) \div 100), Just(Scale \div 10), None, None),
      Pattern(None, None, Just(-(Scale \div 2)), Just(-(Scale \div 10))) }

\* the other buses: P and Q; P = Q = 0; P and V; P, Q and V; V and angle; P alone
BusPatterns ==
    { Pattern(None, None, Just(-(Scale \div 2)), Just(-(Scale \div 10))),
      Pattern(None, None, Just(0), Just(0)),
      Pattern(Just((11 * Scale) \div 10), None, Just(Scale \div 2), None),
      Pattern(Just(Scale), None, Just(-(Scale \div 2)), Just(-(Scale \div 10))),
      Pattern(Just(Scale), Just(0), None, None),
      Pattern(None, None, Just(-(Scale \div 2)), None) }

Unstarted ==
    /\ E_real = <<>>
    /\ E_imag = <<>>
    /\ i = 0
    /\ k = 0
    /\ err = None
    /\ sol = None
    /\ hist = [ncorr |-> 0, last |-> None, order |-> <<>>,
               start_real |-> <<>>, start_imag |-> <<>>,
               init_real |-> <<>>, init_imag |-> <<>>]

Init ==
    /\ n \in BusCounts
    /\ \E g \in LineG, b \in LineB :
          /\ G = NetG(n, g)
          /\ B = NetB(n, b)
    /\ Y = Admittance(G, B)
    /\ \E slack \in SlackPatterns, rest \in [Buses(n) \ {0} -> BusPatterns] :
          LET spec == [a \in Buses(n) |-> IF a = 0 THEN slack ELSE rest[a]]
          IN  /\ Es_magn = [a \in Buses(n) |-> spec[a].V]
              /\ Es_ang = [a \in Buses(n) |-> spec[a].A]
              /\ Ps = [a \in Buses(n) |-> spec[a].P]
              /\ Qs = [a \in Buses(n) |-> spec[a].Q]
    /\ n_iters \in 0 .. MaxSweeps
    /\ pc = "Initializing"
    /\ call = None
    /\ Unstarted

----------------------------------------------------------------------------
(* 3.4 Iterative algorithm.                                                 *)

Raise(type, msg) == [type |-> type, msg |-> msg]

\* Step 1: the flat start.  slack_E = Es_magn[0] * np.exp(Es_ang[0])
slack_E == [real |-> Mul(Val(Es_magn[0]), Exp(Val(Es_ang[0]))), imag |-> 0]

Initialize ==
    /\ pc = "Initializing"
    /\ IF Es_magn[0] = None \/ Es_ang[0] = None
       THEN /\ pc' = "Raised"
            /\ err' = Just(Raise("TypeError", "unsupported operand"))
            /\ UNCHANGED <<E_real, E_imag, i, k, hist>>
       ELSE /\ E_real' = [a \in Buses(n) |-> IF a = 0 THEN slack_E.real ELSE Scale]
            /\ E_imag' = [a \in Buses(n) |-> IF a = 0 THEN slack_E.imag ELSE 0]
            /\ hist' = [hist EXCEPT !.init_real = E_real', !.init_imag = E_imag']
            /\ IF n_iters > 0 /\ n > 1
               THEN pc' = "Sweeping" /\ i' = 0 /\ k' = 1
               ELSE pc' = "Done" /\ UNCHANGED <<i, k>>
            /\ UNCHANGED err
    /\ UNCHANGED <<inputs, sol, call>>

\* Dispatch with the two tests in the other order
Dispatch_generator_first(k_) ==
    IF Ps[k_] # None /\ Es_magn[k_] # None THEN "generator"
    ELSE IF Ps[k_] # None /\ Qs[k_] # None THEN "load"
    ELSE "NotImplementedError"

\* Step 3a: the branch taken for bus k_
Dispatch(k_) ==
    IF Ps[k_] # None /\ Qs[k_] # None THEN "load"
    ELSE IF Ps[k_] # None /\ Es_magn[k_] # None THEN "generator"
    ELSE "NotImplementedError"

\* Steps 2 and 3a of one visit of bus k_ on the voltages Er, Ei: the branch
\* taken (fn), the exception raised (exc, "" if none) and the correction
Correction(Er, Ei, k_) ==
    LET I == compute_I(G, B, Er, Ei, k_)
        fn == Dispatch(k_)
    IN  IF I.exc # "" THEN [fn |-> "", exc |-> I.exc, msg |-> "", x0 |-> 0, x1 |-> 0]
        ELSE IF fn = "load"
        THEN [fn |-> fn] @@
             compute_E_correction_load(Val(Ps[k_]), Val(Qs[k_]), I.i_real, I.i_imag,
                                       Er[k_], Ei[k_], B, G, k_)
        ELSE IF fn = "generator"
        THEN [fn |-> fn] @@
             compute_E_correction_generator(Val(Ps[k_]), Val(Es_magn[k_]),
                                            I.i_real, I.i_imag, Er[k_], Ei[k_], B, G, k_)
        ELSE [fn |-> fn, exc |-> "NotImplementedError", msg |-> "", x0 |-> 0, x1 |-> 0]

\* VisitReal reading the voltages the sweep started with (Jacobi)
VisitReal_sweep_start(k_) == IF k_ = 1 THEN E_real ELSE hist.start_real

\* the voltages the visit of bus k_ reads: the arrays as they are now
VisitReal(k_) == E_real
VisitImag(k_) == E_imag

\* apply_correction writing one index too low
apply_correction_shifted(E, k_, d) == [E EXCEPT ![k_ - 1] = Add(@, d)]

\* Step 3b: E[k_] += d
apply_correction(E, k_, d) == [E EXCEPT ![k_] = Add(@, d)]

\* the buses of one sweep: range(1, n)
FirstBus == 1

\* MoreSweeps with a convergence test: stop once a sweep has changed nothing
MoreSweeps_converged ==
    i + 1 < n_iters /\ (E_real # hist.start_real \/ E_imag # hist.start_imag)

\* whether the loops go on after the visit of bus k in sweep i
MoreBuses == k + 1 < n
MoreSweeps == i + 1 < n_iters

\* one pass through the body of the inner loop: the visit of bus k in sweep i
Step ==
    /\ pc = "Sweeping"
    /\ LET c == Correction(VisitReal(k), VisitImag(k), k)
           new_real == apply_correction(E_real, k, c.x0)
           new_imag == apply_correction(E_imag, k, c.x1)
           started == IF k = FirstBus
                      THEN [hist EXCEPT !.start_real = E_real, !.start_imag = E_imag,
                                        !.order = <<>>]
                      ELSE hist
           visit == [i |-> i, k |-> k, fn |-> c.fn, exc |-> c.exc]
       IN  IF c.exc # ""
           THEN /\ pc' = "Raised"
                /\ err' = Just(Raise(c.exc, c.msg))
                /\ hist' = [started EXCEPT !.last = Just(visit)]
                /\ UNCHANGED <<E_real, E_imag, i, k>>
           ELSE IF \E a \in Buses(n) : new_real[a] = OOR \/ new_imag[a] = OOR
           THEN /\ pc' = "OutOfRange"
                /\ UNCHANGED <<E_real, E_imag, i, k, err, hist>>
           ELSE /\ E_real' = new_real
                /\ E_imag' = new_imag
                /\ hist' = [started EXCEPT !.ncorr = @ + 1,
                                           !.order = Append(@, k),
                                           !.last = Just(visit)]
                /\ IF MoreBuses THEN k' = k + 1 /\ UNCHANGED <<i, pc>>
                   ELSE IF MoreSweeps THEN k' = FirstBus /\ i' = i + 1 /\ UNCHANGED pc
                   ELSE pc' = "Done" /\ UNCHANGED <<i, k>>
                /\ UNCHANGED err
    /\ UNCHANGED <<inputs, sol, call>>

----------------------------------------------------------------------------
(* 3.5 Final solution.                                                      *)

RECURSIVE SumSeq(_, _)
SumSeq(f, a) == IF a < 0 THEN 0 ELSE Add(SumSeq(f, a - 1), f[a])

Extract ==
    /\ pc = "Done"
    /\ LET I == [a \in Buses(n) |-> compute_I(G, B, E_real, E_imag, a)]
           S == [a \in Buses(n) |->
                    compute_PQ(I[a].i_real, I[a].i_imag, E_real[a], E_imag[a])]
           P == [a \in Buses(n) |-> S[a].p]
       IN  IF \E a \in Buses(n) : I[a].exc # ""
           THEN /\ pc' = "Raised"
                /\ err' = Just(Raise("IndexError", ""))
                /\ UNCHANGED sol
           ELSE /\ pc' = "Extracted"
                /\ sol' = Just([P |-> P,
                                Q |-> [a \in Buses(n) |-> S[a].q],
                                I_real |-> [a \in Buses(n) |-> I[a].i_real],
                                I_imag |-> [a \in Buses(n) |-> I[a].i_imag],
                                E_magn |-> [a \in Buses(n) |-> np_abs(E_real[a], E_imag[a])],
                                E_ang |-> [a \in Buses(n) |-> np_angle(E_real[a], E_imag[a])],
                                loss |-> SumSeq(P, n - 1)])
                /\ UNCHANGED err
    /\ UNCHANGED <<inputs, E_real, E_imag, i, k, hist, call>>

Next == Initialize \/ Step \/ Extract

Spec == Init /\ [][Next]_vars

----------------------------------------------------------------------------
(* Properties of the solve.                                                 *)

\* cos and sin by their series, for the polar form of the slack voltage
RECURSIVE TrigSum(_, _, _, _, _)
TrigSum(x, term, sum, j, want) ==
    IF j > ExpTerms THEN sum
    ELSE LET t == DivInt(Mul(term, x), j)
             sign == IF (j \div 2) % 2 = 0 THEN 1 ELSE -1
         IN  TrigSum(x, t, IF j % 2 = want THEN Add(sum, sign * t) ELSE sum, j + 1, want)

Cos(x) == TrigSum(x, Scale, Scale, 1, 0)
Sin(x) == TrigSum(x, Scale, 0, 1, 1)

Started == E_real # <<>>
Last == Val(hist.last)

IsSlackEntry(a) == Es_magn[a] # None /\ Es_ang[a] # None
IsLoadEntry(a) == Ps[a] # None /\ Qs[a] # None
IsGeneratorEntry(a) == Ps[a] # None /\ Es_magn[a] # None
SlackCount == Cardinality({a \in Buses(n) : IsSlackEntry(a)})
InvalidSpecs ==
    \/ SlackCount # 1
    \/ \E a \in Buses(n) : ~IsSlackEntry(a) /\ ~IsLoadEntry(a) /\ ~IsGeneratorEntry(a)
\* valid, with the slack entry at bus 0
ValidSpecs == ~InvalidSpecs /\ IsSlackEntry(0)

\* C1: in every state of a solve the slack bus's voltage (real and imaginary
\* part of bus 0) is the value initialization gave it: no correction writes it.
C1_SlackInvariance ==
    Started => (E_real[0] = hist.init_real[0] /\ E_imag[0] = hist.init_imag[0])

C1_Witness ==
    /\ pc = "Done"
    /\ hist.ncorr >= 2
    /\ E_real # hist.init_real
    /\ Val(Es_ang[0]) # 0

\* C2: with zero or two slack entries, or a non-slack bus that is neither a load
\* nor a generator, the solve fails before any iteration: in the error state no
\* correction has been applied and every voltage has its flat-start value.
C2_EagerValidation ==
    (InvalidSpecs /\ pc = "Raised")
        => (hist.ncorr = 0 /\ E_real = hist.init_real /\ E_imag = hist.init_imag)

\* the slack voltage as specified: magnitude and angle in polar form
SpecifiedSlack ==
    [real |-> Mul(Val(Es_magn[0]), Cos(Val(Es_ang[0]))),
     imag |-> Mul(Val(Es_magn[0]), Sin(Val(Es_ang[0])))]

\* C3: after a solve with n_iters = 0 the slack bus holds its specified value,
\* every other bus holds (1, 0), and no correction has been applied.
C3_ZeroSweeps ==
    (ValidSpecs /\ n_iters = 0 /\ pc \in {"Done", "Extracted"})
        => /\ hist.ncorr = 0
           /\ E_real[0] = SpecifiedSlack.real
           /\ E_imag[0] = SpecifiedSlack.imag
           /\ \A a \in Buses(n) \ {0} : E_real[a] = Scale /\ E_imag[a] = 0

\* C4: every visit of a non-slack bus takes exactly one branch, decided by which
\* of P, Q and |E| are specified there: load if P and Q (whether or not |E| is
\* given too), else generator if P and |E|, else an error; the specifications
\* never change, so a bus gets the same branch in every sweep.
C4_DispatchRule ==
    hist.last # None =>
          /\ Last.k \in Buses(n) \ {0}
          /\ (Ps[Last.k] # None /\ Qs[Last.k] # None) => Last.fn = "load"
          /\ (Ps[Last.k] # None /\ Qs[Last.k] = None /\ Es_magn[Last.k] # None)
                => Last.fn = "generator"
          /\ (Ps[Last.k] = None \/ (Qs[Last.k] = None /\ Es_magn[Last.k] = None))
                => (Last.fn = "NotImplementedError" /\ pc = "Raised"
                    /\ Val(err).type = "NotImplementedError")

C4_Witness ==
    /\ hist.last # None
    /\ Last.i >= 1
    /\ Last.fn = "load"
    /\ Es_magn[Last.k] # None

\* the voltages the visit of bus a in the current sweep must have read: this
\* sweep's corrected voltages below a, the sweep's starting voltages from a up
MixedReal(a) == [m \in Buses(n) |-> IF m < a THEN E_real[m] ELSE hist.start_real[m]]
MixedImag(a) == [m \in Buses(n) |-> IF m < a THEN E_imag[m] ELSE hist.start_imag[m]]

\* C5: within a sweep the non-slack buses are visited in ascending order, and the
\* voltage of the bus visited last is its voltage at the start of the sweep plus
\* the correction computed on this sweep's corrected voltages of the lower buses
\* and the previous voltages of the others; higher buses are still untouched.
C5_GaussSeidelOrder ==
    (hist.last # None /\ Last.exc = "")
        => /\ hist.order = [a \in 1 .. Last.k |-> a]
           /\ LET c == Correction(MixedReal(Last.k), MixedImag(Last.k), Last.k)
              IN  /\ c.exc = ""
                  /\ E_real[Last.k] = Add(hist.start_real[Last.k], c.x0)
                  /\ E_imag[Last.k] = Add(hist.start_imag[Last.k], c.x1)
           /\ \A a \in Buses(n) : a > Last.k
                 => (E_real[a] = hist.start_real[a] /\ E_imag[a] = hist.start_imag[a])

C5_Witness ==
    /\ hist.last # None
    /\ Last.exc = ""
    /\ Last.k = 2
    /\ Last.i = 1
    /\ E_real[1] # hist.start_real[1]
    /\ E_real[2] # hist.start_real[2]

\* the corrections made so far are those of the sweeps and buses gone through
C6_Counts ==
    ValidSpecs =>
        /\ pc = "Sweeping" => /\ i \in 0 .. (n_iters - 1)
                              /\ k \in 1 .. (n - 1)
                              /\ hist.ncorr = i * (n - 1) + (k - 1)
        /\ pc \in {"Done", "Extracted"} => hist.ncorr = n_iters * (n - 1)
        /\ pc = "Raised" => Val(err).type = "LinAlgError"

\* the steps a run still has to make: the visits left, the final solution
C6_Left ==
    IF pc = "Initializing" THEN n_iters * (n - 1) + 2
    ELSE IF pc = "Sweeping" THEN (n_iters - i) * (n - 1) - (k - 1) + 1
    ELSE IF pc = "Done" THEN 1
    ELSE 0

\* C6: with valid specifications the run is ended only by the sweep count or by a
\* singular correction: while sweeping, bus k of sweep i is reached after exactly
\* i * (n - 1) + (k - 1) corrections; every step brings the end nearer, so the run
\* terminates; and it is done after exactly n_iters * (n - 1) corrections, however
\* small they were.
C6_SweepCountTermination ==
    /\ []C6_Counts
    /\ [][C6_Left' < C6_Left /\ C6_Left' >= 0]_vars

C6_Witness ==
    /\ ValidSpecs
    /\ pc = "Done"
    /\ n = 3
    /\ n_iters = 2
    /\ hist.ncorr = 4
    /\ E_real = hist.init_real
    /\ E_imag = hist.init_imag

\* C7: a singular correction matrix ends the solve in an error that names the
\* offending bus and the iteration; nothing is added to the bus's voltage and no
\* further bus is corrected.
C7_SingularReported ==
    (hist.last # None /\ Last.exc = "LinAlgError")
        => /\ pc = "Raised"
           /\ hist.order = [a \in 1 .. (Last.k - 1) |-> a]
           /\ {"bus", "iteration"} \subseteq DOMAIN Val(err)
           /\ Val(err).bus = Last.k
           /\ Val(err).iteration = Last.i

\* C8: initialization sets the slack bus to magnitude * cos(angle) +
\* j magnitude * sin(angle) and every other bus to (1, 0).
C8_SlackInitialization ==
    Started =>
        /\ hist.init_real[0] = SpecifiedSlack.real
        /\ hist.init_imag[0] = SpecifiedSlack.imag
        /\ \A a \in Buses(n) \ {0} : hist.init_real[a] = Scale /\ hist.init_imag[a] = 0

----------------------------------------------------------------------------
(* The 6-bus network of cell 3.3 with the terminal conditions of the paper. *)

RefN == 6
RefSweeps == 60

Sym(M, a, b, v) == [M EXCEPT ![a][b] = v, ![b][a] = v]
Diag(d) == [a \in Buses(Len(d)) |-> [m \in Buses(Len(d)) |->
               IF a = m THEN d[a + 1] ELSE 0]]

RefG ==
    LET D == Diag(<<992203, 1021401, 444860, 1112371, 576541, 988036>>)
    IN  Sym(Sym(Sym(Sym(Sym(D, 1, 2, -D[2][2]), 0, 3, -558269), 1, 4, -576541),
                0, 5, -433934), 3, 5, -554102)

RefB ==
    LET D == Diag(<<-4375561, -1954525, -8164860, -13975358, -4641700, -7619402>>)
    IN  Sym(Sym(Sym(Sym(Sym(Sym(Sym(D, 1, 2, 646063), 0, 3, 2581096), 2, 3, 8270677),
                        1, 4, 1308462), 0, 5, 1827463), 3, 5, 2324944), 4, 5, 3416666)

FromList(l) == [a \in Buses(Len(l)) |-> l[a + 1]]

RefEs_magn == FromList(<<Just(1050000), Just(1100000), None, None, None, None>>)
RefEs_ang == FromList(<<Just(0), None, None, None, None, None>>)
RefPs == FromList(<<None, Just(500000), Just(-550000), Just(0), Just(-300000),
                    Just(-500000)>>)
RefQs == FromList(<<None, None, Just(-130000), Just(0), Just(-180000), Just(-50000)>>)

InitRef ==
    /\ n = RefN
    /\ G = RefG
    /\ B = RefB
    /\ Y = Admittance(G, B)
    /\ Es_magn = RefEs_magn
    /\ Es_ang = RefEs_ang
    /\ Ps = RefPs
    /\ Qs = RefQs
    /\ n_iters = RefSweeps
    /\ pc = "Initializing"
    /\ call = None
    /\ Unstarted

SpecRef == InitRef /\ [][Next]_vars

\* the round trip is within this tolerance (1e-4)
Tol == Scale \div 10000

\* C10: on the 6-bus network with 60 sweeps the run completes, and the final
\* solution has P and Q within 1e-4 of the specified P and Q at every load bus,
\* and P and |E| within 1e-4 of the specified P and |E| at every generator bus.
C10_RoundTrip ==
    /\ pc \notin {"Raised", "OutOfRange"}
    /\ pc = "Extracted" =>
          \A a \in Buses(n) \ {0} :
              /\ Abs(Val(sol).P[a] - Val(Ps[a])) <= Tol
              /\ IF Qs[a] # None
                 THEN Abs(Val(sol).Q[a] - Val(Qs[a])) <= Tol
                 ELSE Abs(Val(sol).E_magn[a] - Val(Es_magn[a])) <= Tol

C10_Witness ==
    /\ pc = "Extracted"
    /\ n_iters = RefSweeps
    /\ hist.ncorr = RefSweeps * (RefN - 1)
    /\ \E a \in Buses(n) : Qs[a] = None /\ Es_magn[a] # None /\ Ps[a] # None
    /\ \E a \in Buses(n) : Qs[a] # None /\ Val(Ps[a]) # 0

----------------------------------------------------------------------------
(* compute_I called on its own, whatever the module-level Y is.             *)

\* voltages tried in direct calls
CallReal == {Scale, (95 * Scale) \div 100}
CallImag == {0, -(Scale \div 20)}

InitCall ==
    /\ n \in BusCounts
    /\ \E g \in LineG, b \in LineB :
          /\ G = NetG(n, g)
          /\ B = NetB(n, b)
    /\ \E rows \in {n - 1, n, n + 1}, g \in LineG, b \in LineB :
          Y = Admittance(NetG(rows, g), NetB(rows, b))
    /\ E_real \in [Buses(n) -> CallReal]
    /\ E_imag \in [Buses(n) -> CallImag]
    /\ Es_magn = <<>>
    /\ Es_ang = <<>>
    /\ Ps = <<>>
    /\ Qs = <<>>
    /\ n_iters = 0
    /\ i = 0
    /\ k = 0
    /\ pc = "Caller"
    /\ err = None
    /\ sol = None
    /\ call = None
    /\ hist = [ncorr |-> 0, last |-> None, order |-> <<>>,
               start_real |-> <<>>, start_imag |-> <<>>,
               init_real |-> <<>>, init_imag |-> <<>>]

\* i_real, i_imag = compute_I(G, B, E_real, E_imag, kk)
CallComputeI ==
    /\ pc = "Caller"
    /\ \E kk \in Buses(n) :
          call' = Just([k |-> kk, result |-> compute_I(G, B, E_real, E_imag, kk)])
    /\ pc' = "Returned"
    /\ UNCHANGED <<inputs, E_real, E_imag, i, k, err, sol, hist>>

SpecCall == InitCall /\ [][CallComputeI]_vars

\* the injection at bus k_ summed over the columns of the matrices passed
InjectionOverColumns(G_, B_, Er, Ei, k_) ==
    compute_I_loop(G_, B_, Er, Ei, k_, 0, Shape0(G_),
                   [exc |-> "", i_real |-> 0, i_imag |-> 0])

\* C9: a call of compute_I returns the sum over the N columns of the G and B it
\* was passed, a function of its arguments alone, whatever the module-level
\* admittance matrix is at the time of the call.
C9_PureInjection ==
    pc = "Returned" =>
        Val(call).result = InjectionOverColumns(G, B, E_real, E_imag, Val(call).k)

----------------------------------------------------------------------------
(* compute_E_correction_load called on its own.                             *)

\* arguments tried in direct calls
CallP == {-(Scale \div 2), 0}
CallQ == {-(Scale \div 10), 0}
CallCurrent == {0, -(Scale \div 2), (3 * Scale) \div 10, Scale}

InitLoad ==
    /\ n \in BusCounts
    /\ \E g \in LineG, b \in LineB :
          /\ G = NetG(n, g)
          /\ B = NetB(n, b)
    /\ Y = Admittance(G, B)
    /\ E_real = <<>>
    /\ E_imag = <<>>
    /\ Es_magn = <<>>
    /\ Es_ang = <<>>
    /\ Ps = <<>>
    /\ Qs = <<>>
    /\ n_iters = 0
    /\ i = 0
    /\ k = 0
    /\ pc = "Caller"
    /\ err = None
    /\ sol = None
    /\ call = None
    /\ hist = [ncorr |-> 0, last |-> None, order |-> <<>>,
               start_real |-> <<>>, start_imag |-> <<>>,
               init_real |-> <<>>, init_imag |-> <<>>]

\* x0, x1 = compute_E_correction_load(p, q, i_real, i_imag, e_real, e_imag, B, G, kk)
CallLoad ==
    /\ pc = "Caller"
    /\ \E p_ \in CallP, q_ \in CallQ, ir \in CallCurrent, ii \in CallCurrent,
          er \in CallReal, ei \in CallImag, kk \in Buses(n) :
          LET r == compute_E_correction_load(p_, q_, ir, ii, er, ei, B, G, kk)
          IN  /\ call' = Just([p_specified |-> p_, q_specified |-> q_,
                               i_real |-> ir, i_imag |-> ii,
                               e_real |-> er, e_imag |-> ei, k |-> kk, result |-> r])
              /\ pc' = IF r.exc # "" THEN "Raised" ELSE "Returned"
              /\ err' = IF r.exc # "" THEN Just(Raise(r.exc, r.msg)) ELSE None
    /\ UNCHANGED <<inputs, E_real, E_imag, i, k, sol, hist>>

SpecLoad == InitLoad /\ [][CallLoad]_vars

\* the mismatch and the matrix of a load-bus correction, from the arguments c of
\* the call: dp = P_specified - (i_real e_real + i_imag e_imag),
\* dq = Q_specified - (i_real e_imag - i_imag e_real), and the matrix built on
\* the self-admittance g + jb of the bus
LoadMismatch(c) ==
    <<Sub(c.p_specified, Add(Mul(c.i_real, c.e_real), Mul(c.i_imag, c.e_imag))),
      Sub(c.q_specified, Sub(Mul(c.i_real, c.e_imag), Mul(c.i_imag, c.e_real)))>>

LoadJacobian(c, g, b) ==
    << <<Add(Add(Mul(c.e_real, g), Mul(c.e_imag, b)), c.i_real),
         Add(Sub(Mul(c.e_imag, g), Mul(c.e_real, b)), c.i_imag)>>,
       <<Sub(Sub(Mul(c.e_imag, g), Mul(c.e_real, b)), c.i_imag),
         Add(Sub(Mul(c.e_imag, b), Mul(c.e_real, g)), c.i_real)>> >>

\* the product of the 2 x 2 matrix A and the column x
MatVec(A, x) ==
    <<Add(Mul(A[1][1], x[1]), Mul(A[1][2], x[2])),
      Add(Mul(A[2][1], x[1]), Mul(A[2][2], x[2]))>>

\* A x - b, the largest component in magnitude
Residual(A, x, b) ==
    LET r == MatVec(A, x)
        d0 == Sub(r[1], b[1])
        d1 == Sub(r[2], b[2])
    IN  IF d0 = OOR \/ d1 = OOR THEN OOR
        ELSE IF Abs(d0) > Abs(d1) THEN Abs(d0) ELSE Abs(d1)

\* the matrix M with every entry off the diagonal replaced by v
OffDiagonal(M, v) == [a \in DOMAIN M |-> [m \in DOMAIN M[a] |->
                         IF a = m THEN M[a][m] ELSE v]]

\* what the arithmetic's rounding may leave of A x - b (1e-4)
SolveTol == Scale \div 10000

\* values put off the diagonal of G and B to see that they are not read
OffValues == {0, Scale}

\* C11: for every call of the load-bus correction whose matrix A (built from the
\* bus's voltage, its injection and the diagonal entries G[k][k], B[k][k]) is
\* non-singular, a correction is returned and it solves A x = [dp; dq], with dp
\* and dq the specified P and Q less the computed P and Q, up to the rounding of
\* the arithmetic; and the result is the same whatever stands off the diagonal
\* of G and B.
C11_LoadCorrectionExact ==
    call # None =>
        LET c == Val(call)
            A == LoadJacobian(c, G[c.k][c.k], B[c.k][c.k])
            x == <<c.result.x0, c.result.x1>>
        IN  /\ Det2(A) # 0 => /\ pc = "Returned"
                              /\ Residual(A, x, LoadMismatch(c)) <= SolveTol
            /\ \A v \in OffValues :
                  c.result = compute_E_correction_load(c.p_specified, c.q_specified,
                                 c.i_real, c.i_imag, c.e_real, c.e_imag,
                                 OffDiagonal(B, v), OffDiagonal(G, v), c.k)

C11_Witness ==
    /\ pc = "Returned"
    /\ n = 3
    /\ B[0][1] # 0
    /\ Val(call).e_imag # 0
    /\ Val(call).i_imag # 0
    /\ LoadMismatch(Val(call))[1] # 0
    /\ LoadMismatch(Val(call))[2] # Val(call).q_specified
    /\ Val(call).result.x0 # 0
    /\ Val(call).result.x1 # 0

----------------------------------------------------------------------------
(* Runs whose terminal conditions the flat start already meets, or nearly.  *)

\* bus 0 at 1.0 or at 1.05, angle 0
FlatSlackPatterns ==
    { Pattern(Just(Scale), Just(0), None, None),
      Pattern(Just((105 * Scale) \div 100), Just(0), None, None) }

\* the other buses: a load drawing nothing; a load and a generator drawing what
\* flows to a bus at 1.0 from a slack bus at 1.05 over a line of admittance
\* 1 - 4j; a load drawing more
FlatBusPatterns ==
    { Pattern(None, None, Just(0), Just(0)),
      Pattern(None, None, Just(-(Scale \div 20)), Just(-(Scale \div 5))),
      Pattern(Just(Scale), None, Just(-(Scale \div 20)), None),
      Pattern(None, None, Just(-(Scale \div 2)), Just(-(Scale \div 10))) }

InitFlat ==
    /\ n \in BusCounts
    /\ \E g \in LineG, b \in LineB :
          /\ G = NetG(n, g)
          /\ B = NetB(n, b)
    /\ Y = Admittance(G, B)
    /\ \E slack \in FlatSlackPatterns, rest \in [Buses(n) \ {0} -> FlatBusPatterns] :
          LET spec == [a \in Buses(n) |-> IF a = 0 THEN slack ELSE rest[a]]
          IN  /\ Es_magn = [a \in Buses(n) |-> spec[a].V]
              /\ Es_ang = [a \in Buses(n) |-> spec[a].A]
              /\ Ps = [a \in Buses(n) |-> spec[a].P]
              /\ Qs = [a \in Buses(n) |-> spec[a].Q]
    /\ n_iters \in 0 .. MaxSweeps
    /\ pc = "Initializing"
    /\ call = None
    /\ Unstarted

SpecFlat == InitFlat /\ [][Next]_vars

\* the mismatch at bus a on the voltages Er, Ei: P and Q against the specified
\* P and Q at a load bus, P and e_real^2 + e_imag^2 against the specified P and
\* the square of the specified magnitude at a generator bus
Mismatch(Er, Ei, a) ==
    LET I == compute_I(G, B, Er, Ei, a)
        p == Add(Mul(I.i_real, Er[a]), Mul(I.i_imag, Ei[a]))
        q == Sub(Mul(I.i_real, Ei[a]), Mul(I.i_imag, Er[a]))
    IN  IF IsLoadEntry(a)
        THEN <<Sub(Val(Ps[a]), p), Sub(Val(Qs[a]), q)>>
        ELSE <<Sub(Val(Ps[a]), p),
               Sub(Mul(Val(Es_magn[a]), Val(Es_magn[a])),
                   Add(Mul(Er[a], Er[a]), Mul(Ei[a], Ei[a])))>>

ZeroMismatch(Er, Ei, a) == Mismatch(Er, Ei, a) = <<0, 0>>

\* the correction matrix of bus a on the voltages Er, Ei is singular
SingularAt(Er, Ei, a) ==
    LET I == compute_I(G, B, Er, Ei, a)
    IN  Det2(IF IsLoadEntry(a)
             THEN load_matrix(I.i_real, I.i_imag, Er[a], Ei[a], B, G, a)
             ELSE generator_matrix(I.i_real, I.i_imag, Er[a], Ei[a], B, G, a)) = 0

\* the visit recorded last found a zero mismatch and a non-singular matrix
VisitedAtRest ==
    /\ hist.last # None
    /\ Last.fn \in {"load", "generator"}
    /\ ZeroMismatch(MixedReal(Last.k), MixedImag(Last.k), Last.k)
    /\ ~SingularAt(MixedReal(Last.k), MixedImag(Last.k), Last.k)

\* the bus visited with a zero mismatch and a non-singular matrix keeps the
\* voltage it had, and the run goes on
C12_VisitAtRest ==
    VisitedAtRest =>
        /\ Last.exc = ""
        /\ pc # "Raised"
        /\ E_real[Last.k] = hist.start_real[Last.k]
        /\ E_imag[Last.k] = hist.start_imag[Last.k]

\* every non-slack bus has a zero mismatch on the present voltages
AllAtRest ==
    /\ ValidSpecs
    /\ Started
    /\ \A a \in Buses(n) \ {0} : ZeroMismatch(E_real, E_imag, a)

\* a step taken with every bus at rest changes no voltage, and it ends the run in
\* an error only at a bus whose matrix is singular
C12_StepAtRest ==
    AllAtRest =>
        /\ E_real' = E_real
        /\ E_imag' = E_imag
        /\ pc' # "OutOfRange"
        /\ pc' = "Raised" => SingularAt(E_real, E_imag, k)

\* C12: a visit of a non-slack bus that finds a zero mismatch (load: computed P
\* and Q equal the specified ones; generator: computed P equals the specified P
\* and e_real^2 + e_imag^2 the specified magnitude squared) and a non-singular
\* matrix adds (0, 0) and leaves the bus voltage as it was; and from a state in
\* which every non-slack bus has a zero mismatch no later step of any sweep
\* changes any voltage.
C12_FixedPoint ==
    /\ []C12_VisitAtRest
    /\ [][C12_StepAtRest]_vars

C12_Witness ==
    /\ AllAtRest
    /\ pc = "Done"
    /\ n = 3
    /\ n_iters = 2
    /\ hist.ncorr = 4
    /\ VisitedAtRest
    /\ E_real[0] # Scale
    /\ IsLoadEntry(1) /\ Val(Qs[1]) # 0
    /\ ~IsLoadEntry(2) /\ Val(Ps[2]) # 0
    /\ E_real = hist.init_real
    /\ E_imag = hist.init_imag

====
